---- MODULE Spec2Model ----
(***************************************************************************)
(* Model of xAdvect's Advect class (src/xAdvect/advect.py): the time       *)
(* normalisation done by the constructor, the velocity sampler interp, the *)
(* step planner and dispatch of translate, and the three integrators       *)
(* euler, RK4 and RKF45 with its step-doubling loop.                       *)
(*                                                                         *)
(* Numbers.  The code computes in IEEE doubles; the model computes in      *)
(* exact rationals extended by the three special values of the doubles.    *)
(* A number is a pair <<n, d>>: d > 0 is the rational n/d in lowest terms, *)
(* <<0,0>> is not-a-number, <<1,0>> and <<-1,0>> are +inf and -inf.        *)
(* sigma is kept as its square (sigma2), so that no root is needed: both   *)
(* sides of every comparison of sigma with the tolerance are nonnegative.  *)
(***************************************************************************)
EXTENDS Integers, Sequences, FiniteSets, TLC

(* Extended rational arithmetic *)

NaN == <<0, 0>>
Inf == <<1, 0>>
NegInf == <<-1, 0>>

\* Each operator below binds its arguments as values, through a set of one
\* element, before it uses them: an argument is evaluated once, however often
\* the body reads it.

Abs(i) == IF i < 0 THEN -i ELSE i
Sign(i) == IF i > 0 THEN 1 ELSE IF i < 0 THEN -1 ELSE 0

RECURSIVE GCD(_, _)
GCD(a, b) ==
  IF b = 0 THEN a ELSE CHOOSE g \in {GCD(b, m) : m \in {a % b}} : TRUE

\* n/d in lowest terms with a positive denominator; d = 0 gives a special
Norm(n0, d0) ==
  CHOOSE r \in
    { IF d = 0 THEN <<Sign(n), 0>>
      ELSE LET g == GCD(Abs(n), Abs(d))
           IN  IF d > 0 THEN <<n \div g, d \div g>>
                        ELSE <<(-n) \div g, (-d) \div g>> :
      n \in {n0}, d \in {d0} } : TRUE

R(i) == <<i, 1>>
Q(n, d) == Norm(n, d)

IsNaN(a) == a = NaN
IsFinite(a) == a[2] # 0

Neg(a0) == CHOOSE r \in {<<-a[1], a[2]>> : a \in {a0}} : TRUE

Add(a0, b0) ==
  CHOOSE r \in
    { IF IsFinite(a) /\ IsFinite(b)
      THEN LET g == GCD(a[2], b[2])
           IN  Norm(a[1] * (b[2] \div g) + b[1] * (a[2] \div g),
                    (a[2] \div g) * b[2])
      ELSE IF IsNaN(a) \/ IsNaN(b) THEN NaN
      ELSE IF ~IsFinite(a) /\ ~IsFinite(b)
           THEN (IF a = b THEN a ELSE NaN)
      ELSE IF ~IsFinite(a) THEN a ELSE b :
      a \in {a0}, b \in {b0} } : TRUE

Sub(a, b) == Add(a, Neg(b))

Mul(a0, b0) ==
  CHOOSE r \in
    { IF IsFinite(a) /\ IsFinite(b)
      THEN LET g1 == GCD(Abs(a[1]), b[2])
               g2 == GCD(Abs(b[1]), a[2])
           IN  <<(a[1] \div g1) * (b[1] \div g2), (a[2] \div g2) * (b[2] \div g1)>>
      ELSE <<Sign(a[1]) * Sign(b[1]), 0>> :
      a \in {a0}, b \in {b0} } : TRUE

\* 1/0 is +inf, 1/inf is 0, 1/nan is nan
Inv(a0) ==
  CHOOSE r \in
    { IF a[1] > 0 THEN <<a[2], a[1]>>
      ELSE IF a[1] < 0 THEN <<-a[2], -a[1]>>
      ELSE IF a[2] = 0 THEN NaN ELSE Inf :
      a \in {a0} } : TRUE

Div(a, b) == Mul(a, Inv(b))

Floor(a0) == CHOOSE r \in {a[1] \div a[2] : a \in {a0}} : TRUE

\* a < b; false when either is not-a-number
Lt(a0, b0) ==
  CHOOSE r \in
    { IF IsNaN(a) \/ IsNaN(b) THEN FALSE
      ELSE IF ~IsFinite(a) \/ ~IsFinite(b)
           THEN a # b /\ (a = NegInf \/ b = Inf)
      ELSE LET fa == Floor(a)
               fb == Floor(b)
           IN  IF fa # fb THEN fa < fb
               ELSE (a[1] - fa * a[2]) * b[2] < (b[1] - fb * b[2]) * a[2] :
      a \in {a0}, b \in {b0} } : TRUE

Le(a0, b0) ==
  CHOOSE r \in
    { ~IsNaN(a) /\ ~IsNaN(b) /\ (a = b \/ Lt(a, b)) : a \in {a0}, b \in {b0} } : TRUE

Gt(a, b) == Lt(b, a)

AbsQ(a0) == CHOOSE r \in {<<Abs(a[1]), a[2]>> : a \in {a0}} : TRUE

\* numpy.min, numpy.max, numpy.mean of a non-empty array
RECURSIVE MinOf(_)
MinOf(s) ==
  IF Len(s) = 1 THEN s[1]
  ELSE LET m == MinOf(Tail(s))
       IN  IF IsNaN(s[1]) \/ IsNaN(m) THEN NaN
           ELSE IF Lt(s[1], m) THEN s[1] ELSE m

RECURSIVE MaxOf(_)
MaxOf(s) ==
  IF Len(s) = 1 THEN s[1]
  ELSE LET m == MaxOf(Tail(s))
       IN  IF IsNaN(s[1]) \/ IsNaN(m) THEN NaN
           ELSE IF Gt(s[1], m) THEN s[1] ELSE m

RECURSIVE SumOf(_)
SumOf(s) == IF Len(s) = 0 THEN R(0) ELSE Add(s[1], SumOf(Tail(s)))

MeanOf(s) == Div(SumOf(s), R(Len(s)))

\* numpy.clip(t, lo, hi): not-a-number stays not-a-number
Clip(a0, lo, hi) ==
  CHOOSE r \in
    { IF IsNaN(a) THEN NaN
      ELSE IF Lt(a, lo) THEN lo
      ELSE IF Gt(a, hi) THEN hi
      ELSE a :
      a \in {a0} } : TRUE

\* every particle takes the element of the first (not the program's)
BcFirst(s, i) == s[1]

\* broadcasting: the i-th element of an array of size 1 or of full size
Bc(s, i) == IF Len(s) = 1 THEN s[1] ELSE s[i]

(* Time Normalizer: Advect.__init__, timescale.from_deltatime followed by   *)
(* to_deltatime(epoch=J2000, scale=86400.0): seconds since J2000            *)

\* seconds from J2000 (2000-01-01T12:00:00) to 2018-01-01T00:00:00
Epoch2018 == 568036800

\* "seconds since 2018-01-01T00:00:00", the default of time_units
UnitsDefault == [to_sec |-> 1, offset |-> Epoch2018]
\* "seconds since 2000-01-01T12:00:00"
UnitsJ2000 == [to_sec |-> 1, offset |-> 0]

Normalize(val, units) == Add(Mul(R(units.to_sec), val), R(units.offset))

NormalizeAll(vals, units) == [k \in 1..Len(vals) |-> Normalize(vals[k], units)]

(* Velocity field provider: an xarray Dataset with variables U, V on a     *)
(* rectilinear grid.  The model's fields vary along y only: f.yg are the    *)
(* y nodes, f.Ug and f.Vg the node values, [f.xlo, f.xhi] the x extent.     *)
(* Outside the grid the provider returns not-a-number.  With a time axis    *)
(* [f.tmin, f.tmax] the node values are those at f.tmin and grow linearly   *)
(* in time by the fraction f.rate per unit of time.                         *)

\* the grid cell [yg[k], yg[k+1]] holding y
CellOf(yg, y) == CHOOSE k \in 1..(Len(yg) - 1) : Le(R(yg[k]), y) /\ Le(y, R(yg[k + 1]))

LinearAt(yg, vals, y) ==
  LET k == CellOf(yg, y)
  IN  Add(vals[k],
          Div(Mul(Sub(y, R(yg[k])), Sub(vals[k + 1], vals[k])),
              R(yg[k + 1] - yg[k])))

NearestAt(yg, vals, y) ==
  LET k == CellOf(yg, y)
  IN  IF Le(Sub(y, R(yg[k])), Sub(R(yg[k + 1]), y)) THEN vals[k] ELSE vals[k + 1]

InGrid(f, px, py) ==
  /\ IsFinite(px) /\ IsFinite(py)
  /\ Le(R(f.xlo), px) /\ Le(px, R(f.xhi))
  /\ Le(R(f.yg[1]), py) /\ Le(py, R(f.yg[Len(f.yg)]))

\* the factor of the node values at the time tq handed over, a time within
\* the axis: interpolated between the two time nodes, or the nearer of them
TimeFactor(f, tq, method) ==
  IF tq = <<>> \/ f.rate = R(0) THEN R(1)
  ELSE IF method = "nearest"
  THEN IF Le(Sub(tq[1], f.tmin), Sub(f.tmax, tq[1])) THEN R(1)
       ELSE Add(R(1), Mul(f.rate, Sub(f.tmax, f.tmin)))
  ELSE Add(R(1), Mul(f.rate, Sub(tq[1], f.tmin)))

\* DataArray.interp at one point; tq is <<>> when no time is passed
ProviderInterp(f, vals, px, py, tq, method) ==
  IF ~InGrid(f, px, py) \/ (tq # <<>> /\ ~IsFinite(tq[1])) THEN NaN
  ELSE IF method = "nearest"
  THEN Mul(NearestAt(f.yg, vals, py), TimeFactor(f, tq, method))
  ELSE Mul(LinearAt(f.yg, vals, py), TimeFactor(f, tq, method))

\* the interpolation method of DataArray.interp when the caller names none
XarrayDefaultMethod == "linear"

\* the method a provider query uses, given the keywords forwarded to it
QueryMethod(kwargs) ==
  IF "method" \in DOMAIN kwargs THEN kwargs.method ELSE XarrayDefaultMethod

\* the keywords euler, RK4 and RFK45_interp forward to interp: x, y, t only
SamplerKwargs == [none \in {} |-> 0]

\* a query time handed over as it is (not the program's)
QueryTimeRaw(f, tv) == IF f.hasT THEN <<tv>> ELSE <<>>

\* the time handed to the provider for a query at time tv
QueryTime(f, tv) == IF f.hasT THEN <<Clip(tv, f.tmin, f.tmax)>> ELSE <<>>

\* Advect.interp at one point: <<U, V>>
Interp(f, px0, py0, tv, kwargs) ==
  CHOOSE r \in
    { <<ProviderInterp(f, f.Ug, px, py, tq, QueryMethod(kwargs)),
        ProviderInterp(f, f.Vg, px, py, tq, QueryMethod(kwargs))>> :
      px \in {px0}, py \in {py0}, tq \in {QueryTime(f, tv)} } : TRUE

(* Butcher tableau of the Runge-Kutta-Fehlberg 4(5) method *)

RKF_A ==
  << <<Q(1, 4)>>,
     <<Q(3, 32), Q(9, 32)>>,
     <<Q(1932, 2197), Q(-7200, 2197), Q(7296, 2197)>>,
     <<Q(439, 216), R(-8), Q(3680, 513), Q(-845, 4104)>>,
     <<Q(-8, 27), R(2), Q(-3544, 2565), Q(1859, 4104), Q(-11, 40)>> >>

RKF_b4 == <<Q(25, 216), R(0), Q(1408, 2565), Q(2197, 4104), Q(-1, 5), R(0)>>

RKF_b5 == <<Q(16, 135), R(0), Q(6656, 12825), Q(28561, 56430), Q(-9, 50), Q(2, 55)>>

\* sum of coef[j] * vals[j] for j = 1..n (numpy.dot on the first n entries)
RECURSIVE Dot(_, _, _)
Dot(coef, vals, n) ==
  IF n = 0 THEN R(0) ELSE Add(Dot(coef, vals, n - 1), Mul(coef[n], vals[n]))

\* stage velocities with the fifth stage, a full step ahead in space, sampled a
\* full step ahead in time as well (not the program's)
RECURSIVE RFK45_interp_ahead(_, _, _, _, _, _)
RFK45_interp_ahead(f, xi, yi, h, tv, us0) ==
  CHOOSE r \in
    { IF Len(us) = 6 THEN us
      ELSE LET s == Len(us)
               Uk == [j \in 1..s |-> us[j][1]]
               Vk == [j \in 1..s |-> us[j][2]]
               px == IF s = 0 THEN xi ELSE Add(xi, Mul(Dot(RKF_A[s], Uk, s), h))
               py == IF s = 0 THEN yi ELSE Add(yi, Mul(Dot(RKF_A[s], Vk, s), h))
               ts == IF s = 4 THEN Add(tv, h) ELSE tv
           IN  RFK45_interp_ahead(f, xi, yi, h, tv,
                                  Append(us, Interp(f, px, py, ts, SamplerKwargs))) :
      us \in {us0} } : TRUE

\* RFK45_interp at one particle: the six stage velocities, us[s] = <<U, V>>
RECURSIVE RFK45_interp(_, _, _, _, _, _)
RFK45_interp(f, xi, yi, h, tv, us0) ==
  CHOOSE r \in
    { IF Len(us) = 6 THEN us
      ELSE LET s == Len(us)
               Uk == [j \in 1..s |-> us[j][1]]
               Vk == [j \in 1..s |-> us[j][2]]
               px == IF s = 0 THEN xi ELSE Add(xi, Mul(Dot(RKF_A[s], Uk, s), h))
               py == IF s = 0 THEN yi ELSE Add(yi, Mul(Dot(RKF_A[s], Vk, s), h))
           IN  RFK45_interp(f, xi, yi, h, tv,
                            Append(us, Interp(f, px, py, tv, SamplerKwargs))) :
      us \in {us0} } : TRUE

\* one RKF45 sub-step of one trajectory at one particle: <<x, y>> advanced with weights b
RKF45_advance(f, b, xi, yi, h, tv) ==
  CHOOSE r \in
    { LET U == [j \in 1..6 |-> us[j][1]]
          V == [j \in 1..6 |-> us[j][2]]
      IN  <<Add(xi, Mul(h, Dot(b, U, 6))), Add(yi, Mul(h, Dot(b, V, 6)))>> :
      us \in {RFK45_interp(f, xi, yi, h, tv, <<>>)} } : TRUE

\* a sub-step that advances by half the displacement (not the program's)
Euler_advance_half(f, xi, yi, h, tv) ==
  LET ds == Interp(f, xi, yi, tv, SamplerKwargs)
  IN  <<Add(xi, Mul(Mul(Q(1, 2), ds[1]), h)), Add(yi, Mul(Mul(Q(1, 2), ds[2]), h))>>

\* one euler sub-step at one particle
Euler_advance(f, xi, yi, h, tv) ==
  LET ds == Interp(f, xi, yi, tv, SamplerKwargs)
  IN  <<Add(xi, Mul(ds[1], h)), Add(yi, Mul(ds[2], h))>>

\* stage velocities with every stage predicted from the position of the stage
\* before it, ds[s] = <<U, V, x, y>> (not the program's)
RECURSIVE RK4_interp_chained(_, _, _, _, _, _)
RK4_interp_chained(f, xi, yi, h, tv, ds0) ==
  CHOOSE r \in
    { IF Len(ds) = 4 THEN ds
      ELSE LET s == Len(ds)
               px == IF s = 0 THEN xi
                     ELSE IF s = 3 THEN Add(ds[s][3], Mul(ds[s][1], h))
                     ELSE Add(ds[s][3], Mul(Mul(Q(1, 2), ds[s][1]), h))
               py == IF s = 0 THEN yi
                     ELSE IF s = 3 THEN Add(ds[s][4], Mul(ds[s][2], h))
                     ELSE Add(ds[s][4], Mul(Mul(Q(1, 2), ds[s][2]), h))
           IN  RK4_interp_chained(f, xi, yi, h, tv,
                 Append(ds, Interp(f, px, py, tv, SamplerKwargs) \o <<px, py>>)) :
      ds \in {ds0} } : TRUE

\* the four stage velocities of one RK4 sub-step at one particle, ds[s] = <<U, V>>:
\* ds1 at (x0, y0), ds2 and ds3 half a step along ds1 and ds2, ds4 a step along ds3
RECURSIVE RK4_interp(_, _, _, _, _, _)
RK4_interp(f, xi, yi, h, tv, ds0) ==
  CHOOSE r \in
    { IF Len(ds) = 4 THEN ds
      ELSE LET s == Len(ds)
               px == IF s = 0 THEN xi
                     ELSE IF s = 3 THEN Add(xi, Mul(ds[s][1], h))
                     ELSE Add(xi, Mul(Mul(Q(1, 2), ds[s][1]), h))
               py == IF s = 0 THEN yi
                     ELSE IF s = 3 THEN Add(yi, Mul(ds[s][2], h))
                     ELSE Add(yi, Mul(Mul(Q(1, 2), ds[s][2]), h))
           IN  RK4_interp(f, xi, yi, h, tv,
                          Append(ds, Interp(f, px, py, tv, SamplerKwargs))) :
      ds \in {ds0} } : TRUE

\* a weighted sum divided by 4 (not the program's)
RK4_increment_by4(ds, c, h) ==
  Div(Mul(h, Add(Add(Add(ds[1][c], Mul(R(2), ds[2][c])), Mul(R(2), ds[3][c])),
                 ds[4][c])),
      R(4))

\* dt * (ds1 + 2 ds2 + 2 ds3 + ds4) / 6 for component c of the stage velocities
RK4_increment(ds, c, h) ==
  Div(Mul(h, Add(Add(Add(ds[1][c], Mul(R(2), ds[2][c])), Mul(R(2), ds[3][c])),
                 ds[4][c])),
      R(6))

\* one RK4 sub-step at one particle
RK4_advance(f, xi, yi, h, tv) ==
  CHOOSE r \in
    { <<Add(xi, RK4_increment(ds, 1, h)), Add(yi, RK4_increment(ds, 2, h))>> :
      ds \in {RK4_interp(f, xi, yi, h, tv, <<>>)} } : TRUE

(* RKF45 error estimate *)

\* the particles compared: numpy.nonzero(isfinite(X4OA) & isfinite(Y4OA))
FiniteSet(X4, Y4) == {k \in 1..Len(X4) : IsFinite(X4[k]) /\ IsFinite(Y4[k])}

RECURSIVE SumSq(_, _, _, _, _)
SumSq(S, X4, Y4, X5, Y5) ==
  IF S = {} THEN R(0)
  ELSE LET k == CHOOSE m \in S : TRUE
           dx == Sub(X5[k], X4[k])
           dy == Sub(Y5[k], Y4[k])
       IN  Add(Add(Mul(dx, dx), Mul(dy, dy)), SumSq(S \ {k}, X4, Y4, X5, Y5))

\* a sigma that stays at its initial value, infinity, while the two
\* trajectories coincide (not the program's)
Sigma2Unmeasured(X4, Y4, X5, Y5) ==
  IF X4 = X5 /\ Y4 = Y5 THEN Inf
  ELSE LET S == FiniteSet(X4, Y4)
       IN  Div(SumSq(S, X4, Y4, X5, Y5), R(Cardinality(S)))

\* sigma squared: sum((X5-X4)^2 + (Y5-Y4)^2) / num
Sigma2(X4, Y4, X5, Y5) ==
  LET S == FiniteSet(X4, Y4)
  IN  Div(SumSq(S, X4, Y4, X5, Y5), R(Cardinality(S)))

\* tolerance = 5e-2, as the fraction 1/TolInv
TolInv == 20
RKF45_tolerance == Q(1, TolInv)

Sq(a) == Mul(a, a)

\* a while condition without the isnan test (not the program's)
RKF45_continue_finite(s2, tol) == Gt(s2, Sq(tol))

\* (sigma > tolerance) or isnan(sigma): the while condition of RKF45
RKF45_continue(s2, tol) == Gt(s2, Sq(tol)) \/ IsNaN(s2)

\* (sigma <= tolerance) or isnan(sigma): the test that saves X4OA, Y4OA
RKF45_accept(s2, tol) == Le(s2, Sq(tol)) \/ IsNaN(s2)

(* Step Planner: translate, lines 195-212 *)

\* numpy.int64 of a finite nonnegative double: truncation
Int64(a) == Floor(a)

\* a planner without the scalar branch (not the program's)
PlannedStepsNoScalar(tt, tnd, tt0, t0nd, step) ==
  IF Lt(MinOf(tt0), MinOf(tt))
  THEN Div(AbsQ(Sub(MaxOf(tt), MinOf(tt0))), step)
  ELSE IF Gt(MaxOf(tt0), MaxOf(tt))
  THEN Div(AbsQ(Sub(MaxOf(tt0), MinOf(tt))), step)
  ELSE Div(AbsQ(Sub(MeanOf(tt0), MeanOf(tt))), step)

\* a planner whose forward branch measures from max(t) (not the program's)
PlannedStepsFromMax(tt, tnd, tt0, t0nd, step) ==
  IF Lt(MinOf(tt0), MinOf(tt))
  THEN Div(AbsQ(Sub(MaxOf(tt), MinOf(tt0))), step)
  ELSE IF Gt(MaxOf(tt0), MaxOf(tt))
  THEN Div(AbsQ(Sub(MaxOf(tt0), MaxOf(tt))), step)
  ELSE IF t0nd = 0 \/ tnd = 0
  THEN LET n == IF Len(tt) > Len(tt0) THEN Len(tt) ELSE Len(tt0)
       IN  Div(MaxOf([k \in 1..n |-> AbsQ(Sub(Bc(tt0, k), Bc(tt, k)))]), step)
  ELSE Div(AbsQ(Sub(MeanOf(tt0), MeanOf(tt))), step)

\* n_steps before truncation, from the normalised times tt (source) and tt0
\* (target, .nd its number of dimensions) and the step in seconds
PlannedSteps(tt, tnd, tt0, t0nd, step) ==
  IF Lt(MinOf(tt0), MinOf(tt))
  THEN Div(AbsQ(Sub(MaxOf(tt), MinOf(tt0))), step)
  ELSE IF Gt(MaxOf(tt0), MaxOf(tt))
  THEN Div(AbsQ(Sub(MaxOf(tt0), MinOf(tt))), step)
  ELSE IF t0nd = 0 \/ tnd = 0
  THEN LET n == IF Len(tt) > Len(tt0) THEN Len(tt) ELSE Len(tt0)
       IN  Div(MaxOf([k \in 1..n |-> AbsQ(Sub(Bc(tt0, k), Bc(tt, k)))]), step)
  ELSE Div(AbsQ(Sub(MeanOf(tt0), MeanOf(tt))), step)

\* a step count that always comes from the planner (not the program's)
StepCountPlanned(kN, tt, tnd, tt0, t0nd, step) ==
  Int64(PlannedSteps(tt, tnd, tt0, t0nd, step))

\* kwargs["N"] after line 212; kN is <<>> when the caller gave no N
StepCount(kN, tt, tnd, tt0, t0nd, step) ==
  IF kN # <<>> THEN kN[1]
  ELSE Int64(PlannedSteps(tt, tnd, tt0, t0nd, step))

(* Bounds of the model *)

\* translate calls per behaviour
MaxCalls == 2
\* largest step count N a modelled call integrates with
MaxN == 5
\* largest RKF45 scale whose attempt the model runs
MaxScale == 4
\* largest numerator and denominator of a displacement whose distance the model reads
MaxLeg == 150
\* largest retries keyword a modelled call of attempt_login is given
MaxRetries == 3
\* most result pages a modelled call of cmr requests
MaxPages == 3

(* Inputs: velocity fields, constructor arguments, keywords of translate *)

Const(u, n) == [k \in 1..n |-> u]

\* U = V = 0.1 on [0,10] x [0,10], no time axis
FieldUniform ==
  [xlo |-> 0, xhi |-> 10, yg |-> <<0, 10>>,
   Ug |-> Const(Q(1, 10), 2), Vg |-> Const(Q(1, 10), 2),
   hasT |-> FALSE, tmin |-> R(0), tmax |-> R(0), rate |-> R(0)]

\* U = 0.3, V = 0.4 on the same grid
FieldUniform34 ==
  [FieldUniform EXCEPT !.Ug = Const(Q(3, 10), 2), !.Vg = Const(Q(4, 10), 2)]

\* the same field with a time axis covering part of the advection interval
FieldUniformT ==
  [FieldUniform EXCEPT !.hasT = TRUE,
                       !.tmin = R(Epoch2018 + 2), !.tmax = R(Epoch2018 + 6)]

\* U = V = 0.1 at time 0 on the same grid, doubling linearly until time 8
FieldGrowing ==
  [FieldUniform EXCEPT !.hasT = TRUE, !.tmin = R(0), !.tmax = R(8), !.rate = Q(1, 8)]

\* a shear flow: V = 104, U = 0 up to y = 104 and rising linearly to top at y = 832
FieldShear(top) ==
  [xlo |-> -100000, xhi |-> 100000, yg |-> <<0, 104, 832>>,
   Ug |-> <<R(0), R(0), R(top)>>, Vg |-> Const(R(104), 3),
   hasT |-> FALSE, tmin |-> R(0), tmax |-> R(0), rate |-> R(0)]

\* the shear flow with top 105 on a grid that ends at x = 367
FieldShearEdge == [FieldShear(105) EXCEPT !.xhi = 367]

Ctor(ds, xs, ys, ts, tnd, t0s, t0nd, units) ==
  [ds |-> ds, x |-> xs, y |-> ys, t |-> ts, tnd |-> tnd,
   t0 |-> t0s, t0nd |-> t0nd, units |-> units]

\* the constructor calls Advect(ds, x=, y=, t=, t0=, time_units=) of the model
Scenarios ==
  { Ctor(FieldUniform, <<R(1)>>, <<R(2)>>, <<R(0)>>, 0, <<R(10)>>, 0, UnitsDefault),
    Ctor(FieldUniform, <<R(1), R(2)>>, <<R(2), R(3)>>, <<R(0), R(5)>>, 1, <<R(10)>>, 0, UnitsDefault),
    Ctor(FieldUniformT, <<R(3)>>, <<R(2)>>, <<R(10)>>, 0, <<R(0)>>, 0, UnitsDefault),
    Ctor(FieldUniformT, <<R(3)>>, <<R(2)>>, <<R(0)>>, 0, <<R(10)>>, 0, UnitsDefault),
    Ctor(FieldUniform, <<R(1), R(2)>>, <<R(2), R(3)>>, <<R(0), R(10)>>, 1, <<R(4)>>, 0, UnitsDefault),
    Ctor(FieldUniform, <<R(1), R(2)>>, <<R(2), R(3)>>, <<R(0), R(10)>>, 1, <<R(4)>>, 1, UnitsDefault),
    Ctor(FieldUniform, <<R(1), R(2)>>, <<R(2), R(3)>>, <<R(0), R(5)>>, 1, <<R(10), R(12)>>, 1, UnitsDefault),
    Ctor(FieldUniform, <<Q(19, 2)>>, <<R(2)>>, <<R(0)>>, 0, <<R(10)>>, 0, UnitsDefault),
    Ctor(FieldUniform, <<R(11)>>, <<R(2)>>, <<R(0)>>, 0, <<R(10)>>, 0, UnitsDefault),
    Ctor(FieldUniform34, <<R(0)>>, <<R(0)>>, <<R(0)>>, 0, <<R(10)>>, 0, UnitsDefault),
    Ctor(FieldShear(14), <<R(0)>>, <<R(0)>>, <<R(0)>>, 0, <<R(8)>>, 0, UnitsJ2000),
    Ctor(FieldShear(28), <<R(0)>>, <<R(0)>>, <<R(0)>>, 0, <<R(8)>>, 0, UnitsJ2000),
    Ctor(FieldShear(182), <<R(0)>>, <<R(0)>>, <<R(0)>>, 0, <<R(8)>>, 0, UnitsJ2000),
    Ctor(FieldGrowing, <<R(1)>>, <<R(2)>>, <<R(0)>>, 0, <<R(8)>>, 0, UnitsJ2000),
    Ctor(FieldShearEdge, <<R(0), R(-367)>>, <<R(0), R(0)>>, <<R(0)>>, 0, <<R(8)>>, 0, UnitsJ2000) }

\* the keywords of one translate call; <<>> stands for a keyword the caller leaves out
Kw(ki, km, ks, kN, kt0, ktol) ==
  [integrator |-> ki, method |-> km, step |-> ks, N |-> kN, t0 |-> kt0,
   tolerance |-> ktol]

\* the translate calls of the model
KwCalls ==
  { Kw(<<>>, <<>>, <<>>, <<>>, <<>>, <<>>),
    Kw(<<"euler">>, <<>>, <<2>>, <<>>, <<>>, <<>>),
    Kw(<<"RK4">>, <<>>, <<2>>, <<>>, <<>>, <<>>),
    Kw(<<"RKF45">>, <<>>, <<2>>, <<>>, <<>>, <<>>),
    Kw(<<"RKF45">>, <<>>, <<8>>, <<>>, <<>>, <<>>),
    Kw(<<"RKF45">>, <<>>, <<8>>, <<>>, <<>>, <<Q(1, 2)>>),
    Kw(<<"rk4">>, <<>>, <<2>>, <<>>, <<>>, <<>>),
    Kw(<<"euler">>, <<"nearest">>, <<2>>, <<>>, <<>>, <<>>),
    Kw(<<"RK4">>, <<>>, <<>>, <<2>>, <<>>, <<>>),
    Kw(<<"euler">>, <<>>, <<>>, <<2>>, <<R(4)>>, <<>>),
    Kw(<<"euler">>, <<>>, <<20>>, <<>>, <<>>, <<>>) }

\* step of translate when the caller gives none
DefaultStep == 86400

\* a dispatch that also lets the selector "rk4" through (not the program's)
SchemesLoose == {"euler", "RK4", "RKF45", "rk4"}

\* the selectors translate dispatches on
Schemes == {"euler", "RK4", "RKF45"}

\* what a read of a property or a call gives: a value, None, or an exception
Array(v) == [kind |-> "array", val |-> v]
None == [kind |-> "None", val |-> <<>>]
Raised(e) == [kind |-> e, val |-> <<>>]
Unread == [kind |-> "unread", val |-> <<>>]

(* datasets/fetch.py: Earthdata login and CMR granule query.  A string is a   *)
(* string; a missing value (None, an absent header, an absent keyword) is   *)
(* the empty tuple and a present value v the tuple <<v>>.                   *)

\* kwargs.setdefault("retries", 5)
DefaultRetries == 5

\* a loop that runs once more than asked (not the program's)
LoginMoreInclusive(retry, retries) == retry <= retries

\* for retry in range(kwargs["retries"]): whether pass number retry runs
LoginMore(retry, retries) == retry < retries

\* the credentials of a source: a pair user, password; "" where it has none
\* (authenticators raising, an unset environment variable)
Credentials(netrc, given) == IF netrc # <<>> THEN netrc[1] ELSE given

\* what a terminal prompt (builtins.input, getpass.getpass) gives: a string,
\* or EOFError where no terminal is attached
Answers == {<<"">>, <<"ann">>, <<"bob">>, <<>>}

\* attempt_login before any call
LoginIdle ==
  [pc |-> "idle", retries |-> 0, retry |-> 0, username |-> "", password |-> "",
   opener |-> <<>>, checks |-> 0, failed |-> 0, asked |-> 0, out |-> Unread]

\* the descriptor of the links of an endpoint: the dictionary rel
Rel(endpoint) ==
  CASE endpoint = "data" -> "data#"
    [] endpoint = "opendap" -> "service#"
    [] endpoint = "s3" -> "s3#"

\* the inner loop of cmr_filter_json: the href of the links of one entry that
\* carry a descriptor, are not inherited, and are of the endpoint
EntryUrls(links, endpoint) ==
  LET keep(l) == l.rel # <<>> /\ ~l.inherited /\ l.rel[1] = Rel(endpoint)
      kept == SelectSeq(links, keep)
  IN  [k \in 1..Len(kept) |-> kept[k].href]

RECURSIVE EntriesUrls(_, _)
\* the outer loop of cmr_filter_json over the entries of the feed
EntriesUrls(entries, endpoint) ==
  IF entries = <<>> THEN <<>>
  ELSE EntryUrls(Head(entries), endpoint) \o EntriesUrls(Tail(entries), endpoint)

\* cmr_filter_json(search_results, endpoint)
cmr_filter_json(search_results, endpoint) ==
  IF ~search_results.feed THEN <<>>
  ELSE EntriesUrls(search_results.entry, endpoint)

\* a link of an entry: its descriptor (absent: <<>>), whether it has the key
\* "inherited", its href
Link(rel, inherited, href) == [rel |-> rel, inherited |-> inherited, href |-> href]

\* the bodies CMR answers with: no feed, a feed without entries, one granule,
\* two granules with an inherited and an undescribed link, metadata only
Bodies ==
  { [feed |-> FALSE, entry |-> <<>>],
    [feed |-> TRUE, entry |-> <<>>],
    [feed |-> TRUE, entry |->
       << <<Link(<<"data#">>, FALSE, "g1"), Link(<<"s3#">>, FALSE, "s1"),
            Link(<<"metadata#">>, FALSE, "m1")>> >>],
    [feed |-> TRUE, entry |->
       << <<Link(<<"data#">>, FALSE, "g2"), Link(<<"data#">>, TRUE, "h2")>>,
          <<Link(<<"data#">>, FALSE, "g3"), Link(<<>>, FALSE, "x3"),
            Link(<<"s3#">>, FALSE, "s3"), Link(<<"service#">>, FALSE, "o3")>> >>],
    [feed |-> TRUE, entry |-> << <<Link(<<"metadata#">>, FALSE, "m4")>> >>] }

\* the CMR-Search-After header of response number k: absent, empty, or the
\* key of the page after it
SearchAfter(k) ==
  {<<>>, <<"">>, <<CASE k = 1 -> "after1" [] k = 2 -> "after2" [] k = 3 -> "after3"
                   [] OTHER -> "after4">>}

\* a request goes out with the header when: if cmr_search_after
Truthy(v) == v # <<>> /\ v[1] # ""

\* the loop of cmr ends after a page when: if not urls or cmr_search_after is None
QueryBreak(urls, after) == urls = <<>> \/ after = <<>>

\* cmr before any call
QueryIdle ==
  [pc |-> "idle", endpoint |-> "data", cmr_search_after |-> <<>>,
   granule_urls |-> <<>>, sent |-> <<>>, pages |-> <<>>, out |-> Unread]

(* State *)

VARIABLES
  arg,         \* the constructor's arguments (caller's units), never written
  velocity,    \* self.velocity
  x, y,        \* self.x, self.y
  t, t_nd,     \* self.t (seconds since J2000) and its numpy.ndim
  t0, t0_nd,   \* self.t0
  x0, y0,      \* self.x0, self.y0; <<>> while the attribute does not exist
  integrator,  \* self.integrator
  method,      \* self.method
  pc,          \* "idle", or the integrator whose loop is running
  kw,          \* keywords of the call in progress or last made
  dt, tcur, i, \* locals of the running integrator: dt, t, loop index
  scale, tolerance, sigma2,       \* locals of RKF45
  X4OA, Y4OA, X5OA, Y5OA,         \* locals of RKF45
  ret,         \* how the last call ended: "none", "ok" or the error raised
  nsamp,       \* calls of interp in the running or last pass of the integrator's outer loop
  qmethods,    \* interpolation methods of the provider queries of that call
  calls,       \* translate calls so far
  qtimes,      \* the provider queries of that call: cursor time and time handed over
  prev,        \* the request and the result of the last call that returned before this one
  dist,        \* what the last read of distance gave; Unread before any read
  login,       \* datasets.fetch.attempt_login: the locals of the call and how it ended
  query        \* datasets.fetch.cmr: the locals of the call, the exchange with CMR so far

obj == <<velocity, x, y, t, t_nd>>
loc == <<dt, tcur, i, scale, tolerance, sigma2, X4OA, Y4OA, X5OA, Y5OA>>
vars == <<arg, velocity, x, y, t, t_nd, t0, t0_nd, x0, y0, integrator, method,
          pc, kw, dt, tcur, i, scale, tolerance, sigma2, X4OA, Y4OA, X5OA, Y5OA,
          ret, nsamp, qmethods, calls, qtimes, prev, dist, login, query>>
\* the state of the functions of datasets/fetch.py, which no method of Advect touches
fetch == <<login, query>>
\* the state of an Advect object and of its calls
advect == <<arg, velocity, x, y, t, t_nd, t0, t0_nd, x0, y0, integrator, method,
            pc, kw, dt, tcur, i, scale, tolerance, sigma2, X4OA, Y4OA, X5OA, Y5OA,
            ret, nsamp, qmethods, calls, qtimes, prev, dist>>

P == Len(x)

NoPrev == [req |-> <<>>, x0 |-> <<>>, y0 |-> <<>>]

NoKw == [integrator |-> <<>>, method |-> <<>>, step |-> <<>>, N |-> <<>>,
         t0 |-> <<>>, tolerance |-> <<>>, n |-> 0]

\* Advect.__init__
Construct(sc) ==
    /\ arg = sc
    /\ velocity = sc.ds
    /\ x = sc.x /\ y = sc.y
    /\ t = NormalizeAll(sc.t, sc.units) /\ t_nd = sc.tnd
    /\ t0 = NormalizeAll(sc.t0, sc.units) /\ t0_nd = sc.t0nd
    /\ x0 = <<>> /\ y0 = <<>>
    /\ integrator = "RK4" /\ method = "linear"
    /\ pc = "idle" /\ kw = NoKw
    /\ dt = <<>> /\ tcur = <<>> /\ i = 0
    /\ scale = 1 /\ tolerance = RKF45_tolerance /\ sigma2 = Inf
    /\ X4OA = <<>> /\ Y4OA = <<>> /\ X5OA = <<>> /\ Y5OA = <<>>
    /\ ret = "none" /\ nsamp = 0 /\ qmethods = {} /\ calls = 0
    /\ qtimes = {} /\ prev = NoPrev /\ dist = Unread

\* an object just constructed; no function of datasets/fetch.py has been called
Init ==
  /\ \E sc \in Scenarios : Construct(sc)
  /\ login = LoginIdle /\ query = QueryIdle

\* dt = (self.t0 - self.t) / float64(m), one entry per particle
StepSize(tt0, tt, m) ==
  [k \in 1..P |-> Div(Sub(Bc(tt0, k), Bc(tt, k)), R(m))]

\* t = numpy.copy(self.t), one entry per particle
Cursor(tt) == [k \in 1..P |-> Bc(tt, k)]

\* a prologue that keeps the result of the previous call (not the program's)
SourceCopyKeep(src, old) == IF old = <<>> THEN src ELSE old

\* the values of a copy, numpy.copy(self.x), taken while an older array old
\* of the name exists: self.x0 = numpy.copy(self.x) in the prologues
SourceCopy(src, old) == src

\* a pass that goes on from the trajectory of the pass before (not the program's)
RestartResume(src, old) == IF Len(old) = Len(src) THEN old ELSE src

\* X4OA = numpy.copy(self.x) at the head of every pass of the while loop of RKF45
Restart(src, old) == src

\* self.x when the written array is self.x itself, no copy made (not the program's)
SourceAliased(src, written) == written

\* self.x after an in-place write (+=) to an array made by numpy.copy(self.x)
SourceAfterWrite(src, written) == src

\* the request of the last call: what translate was asked for, after defaults
LastRequest ==
  [integrator |-> integrator, method |-> method, step |-> kw.step, N |-> kw.N,
   t0 |-> t0, t0_nd |-> t0_nd]

\* the provider queries of one sub-step at cursor tc: the time of each particle
\* and the time handed to the provider for it
QueryLog(tc) ==
  {[at |-> tc[k], handed |-> QueryTime(velocity, tc[k])] : k \in 1..P}

\* translate up to its dispatch, and the prologue of the integrator it calls
Translate(ki, km, ks, kN, kt0, ktol) ==
  LET in2 == IF ki = <<>> THEN integrator ELSE ki[1]
      me2 == IF km = <<>> THEN method ELSE km[1]
      step == IF ks = <<>> THEN R(DefaultStep) ELSE R(ks[1])
      kwt0 == IF kt0 = <<>> THEN t0 ELSE <<kt0[1]>>
      kwt0nd == IF kt0 = <<>> THEN t0_nd ELSE 0
      \* kwargs["t0"] != self.t0 is an array: its truth value exists for one element only
      ambiguous == Len(kwt0) > 1 \/ Len(t0) > 1
      differs == kwt0[1] # t0[1]
      t0new == IF differs THEN kwt0 ELSE t0
      t0ndnew == IF differs THEN kwt0nd ELSE t0_nd
      n == StepCount(kN, t, t_nd, t0new, t0ndnew, step)
      given == [integrator |-> ki, method |-> km, step |-> ks, N |-> kN,
                t0 |-> kt0, tolerance |-> ktol, n |-> n]
  IN
  /\ pc = "idle"
  /\ calls < MaxCalls
  /\ calls' = calls + 1
  /\ integrator' = in2
  /\ method' = me2
  /\ nsamp' = 0 /\ qmethods' = {} /\ qtimes' = {}
  /\ prev' = IF ret = "ok" THEN [req |-> LastRequest, x0 |-> x0, y0 |-> y0] ELSE prev
  /\ dist' = Unread
  /\ UNCHANGED <<fetch, arg, obj>>
  /\ IF ambiguous
     THEN /\ ret' = "AmbiguousTruth"
          /\ kw' = [given EXCEPT !.n = 0]
          /\ UNCHANGED <<t0, t0_nd, x0, y0, pc, loc>>
     ELSE /\ t0' = t0new /\ t0_nd' = t0ndnew
          /\ kw' = given
          /\ IF in2 \notin Schemes
             THEN /\ ret' = "InvalidScheme"
                  /\ UNCHANGED <<x0, y0, pc, loc>>
             ELSE /\ n <= MaxN
                  /\ ret' = "none"
                  /\ pc' = in2
                  /\ x0' = SourceCopy(x, x0) /\ y0' = SourceCopy(y, y0)
                  /\ dt' = StepSize(t0new, t, n)
                  /\ tcur' = Cursor(t)
                  /\ i' = 0
                  /\ scale' = 1
                  /\ tolerance' = RKF45_tolerance
                  /\ sigma2' = Inf
                  /\ X4OA' = Restart(x, X4OA) /\ Y4OA' = Restart(y, Y4OA)
                  /\ X5OA' = Restart(x, X5OA) /\ Y5OA' = Restart(y, Y5OA)

\* a cursor that stays at the source times (not the program's)
AdvanceNot(tt, h) == tt

\* t += dt
Advance(tt, h) == [k \in 1..P |-> Add(tt[k], h[k])]

\* one pass of the loop of euler
EulerStep ==
  /\ pc = "euler" /\ i < kw.n
  /\ LET adv == [k \in 1..P |-> Euler_advance(velocity, x0[k], y0[k], dt[k], tcur[k])]
     IN  /\ x0' = [k \in 1..P |-> adv[k][1]]
         /\ y0' = [k \in 1..P |-> adv[k][2]]
  /\ tcur' = Advance(tcur, dt)
  /\ i' = i + 1
  /\ nsamp' = nsamp + 1
  /\ qmethods' = qmethods \cup {QueryMethod(SamplerKwargs)}
  /\ x' = SourceAfterWrite(x, x0') /\ y' = SourceAfterWrite(y, y0')
  /\ qtimes' = qtimes \cup QueryLog(tcur)
  /\ UNCHANGED <<fetch, arg, velocity, t, t_nd, t0, t0_nd, integrator, method, pc, kw,
                 dt, scale, tolerance, sigma2, X4OA, Y4OA, X5OA, Y5OA, ret, calls,
                 prev, dist>>

\* one pass of the loop of RK4
RK4Step ==
  /\ pc = "RK4" /\ i < kw.n
  /\ LET adv == [k \in 1..P |-> RK4_advance(velocity, x0[k], y0[k], dt[k], tcur[k])]
     IN  /\ x0' = [k \in 1..P |-> adv[k][1]]
         /\ y0' = [k \in 1..P |-> adv[k][2]]
  /\ tcur' = Advance(tcur, dt)
  /\ i' = i + 1
  /\ nsamp' = nsamp + 4
  /\ qmethods' = qmethods \cup {QueryMethod(SamplerKwargs)}
  /\ x' = SourceAfterWrite(x, x0') /\ y' = SourceAfterWrite(y, y0')
  /\ qtimes' = qtimes \cup QueryLog(tcur)
  /\ UNCHANGED <<fetch, arg, velocity, t, t_nd, t0, t0_nd, integrator, method, pc, kw,
                 dt, scale, tolerance, sigma2, X4OA, Y4OA, X5OA, Y5OA, ret, calls,
                 prev, dist>>

\* euler and RK4 return once their loop has run N times
FixedReturn ==
  /\ pc \in {"euler", "RK4"} /\ i >= kw.n
  /\ pc' = "idle" /\ ret' = "ok"
  /\ UNCHANGED <<fetch, arg, obj, t0, t0_nd, x0, y0, integrator, method, kw, loc,
                 nsamp, qmethods, calls, qtimes, prev, dist>>

\* one pass of the inner loop of RKF45: both trajectories advance
RKF45Step ==
  /\ pc = "RKF45" /\ i < scale * kw.n
  /\ scale <= MaxScale
  /\ LET a4 == [k \in 1..P |-> RKF45_advance(velocity, RKF_b4, X4OA[k], Y4OA[k], dt[k], tcur[k])]
         a5 == [k \in 1..P |-> RKF45_advance(velocity, RKF_b5, X5OA[k], Y5OA[k], dt[k], tcur[k])]
     IN  /\ X4OA' = [k \in 1..P |-> a4[k][1]]
         /\ Y4OA' = [k \in 1..P |-> a4[k][2]]
         /\ X5OA' = [k \in 1..P |-> a5[k][1]]
         /\ Y5OA' = [k \in 1..P |-> a5[k][2]]
  /\ tcur' = Advance(tcur, dt)
  /\ i' = i + 1
  /\ nsamp' = nsamp + 12
  /\ qmethods' = qmethods \cup {QueryMethod(SamplerKwargs)}
  /\ x' = SourceAfterWrite(x, X4OA') /\ y' = SourceAfterWrite(y, Y4OA')
  /\ qtimes' = qtimes \cup QueryLog(tcur)
  /\ UNCHANGED <<fetch, arg, velocity, t, t_nd, t0, t0_nd, x0, y0, integrator, method,
                 pc, kw, dt, scale, tolerance, sigma2, ret, calls, prev, dist>>

\* the end of a pass of the while loop of RKF45: sigma, the acceptance test,
\* the while condition, and the prologue of the next pass when it holds
RKF45Test ==
  /\ pc = "RKF45" /\ i >= scale * kw.n
  /\ scale <= MaxScale
  /\ LET s2 == Sigma2(X4OA, Y4OA, X5OA, Y5OA)
         ok == RKF45_accept(s2, tolerance)
         sc2 == IF ok THEN scale ELSE 2 * scale
     IN  /\ sigma2' = s2
         /\ x0' = IF ok THEN X4OA ELSE x0
         /\ y0' = IF ok THEN Y4OA ELSE y0
         /\ scale' = sc2
         /\ IF RKF45_continue(s2, tolerance)
            THEN /\ dt' = StepSize(t0, t, sc2 * kw.n)
                 /\ X4OA' = Restart(x, X4OA) /\ Y4OA' = Restart(y, Y4OA)
                 /\ X5OA' = Restart(x, X5OA) /\ Y5OA' = Restart(y, Y5OA)
                 /\ tcur' = Cursor(t)
                 /\ i' = 0
                 /\ nsamp' = 0
                 /\ UNCHANGED <<pc, ret>>
            ELSE /\ pc' = "idle" /\ ret' = "ok"
                 /\ UNCHANGED <<dt, X4OA, Y4OA, X5OA, Y5OA, tcur, i, nsamp>>
  /\ UNCHANGED <<fetch, arg, obj, t0, t0_nd, integrator, method, kw, tolerance,
                 qmethods, calls, qtimes, prev, dist>>

\* a property without the try statement: the missing attribute is an error
\* (not the program's)
Distance2Raising(xs, ys, x0s, y0s) ==
  IF x0s = <<>> \/ y0s = <<>> THEN Raised("AttributeError")
  ELSE Array([k \in 1..Len(xs) |-> Add(Sq(Sub(x0s[k], xs[k])), Sq(Sub(y0s[k], ys[k])))])

\* the sum of the absolute displacements (not the program's)
Distance2Manhattan(xs, ys, x0s, y0s) ==
  IF x0s = <<>> \/ y0s = <<>> THEN None
  ELSE Array([k \in 1..Len(xs) |->
                Sq(Add(AbsQ(Sub(x0s[k], xs[k])), AbsQ(Sub(y0s[k], ys[k]))))])

\* the value of the property distance, as squares: numpy.sqrt is left out.
\* "None" is what the except clause returns when the expression raises, as it
\* does while self.x0 or self.y0 does not exist
Distance2(xs, ys, x0s, y0s) ==
  IF x0s = <<>> \/ y0s = <<>> THEN None
  ELSE Array([k \in 1..Len(xs) |-> Add(Sq(Sub(x0s[k], xs[k])), Sq(Sub(y0s[k], ys[k])))])

\* the squares of a displacement are within the integers of the model
Fits(a) == ~IsFinite(a) \/ (Abs(a[1]) <= MaxLeg /\ a[2] <= MaxLeg)

\* a read of the property distance between two calls
ReadDistance ==
  /\ pc = "idle"
  /\ x0 # <<>> => \A k \in 1..P : Fits(Sub(x0[k], x[k])) /\ Fits(Sub(y0[k], y[k]))
  /\ dist' = Distance2(x, y, x0, y0)
  /\ UNCHANGED <<fetch, arg, obj, t0, t0_nd, x0, y0, integrator, method, pc, kw, loc,
                 ret, nsamp, qmethods, calls, qtimes, prev>>

Next ==
  \/ \E c \in KwCalls :
       Translate(c.integrator, c.method, c.step, c.N, c.t0, c.tolerance)
  \/ EulerStep
  \/ RK4Step
  \/ FixedReturn
  \/ RKF45Step
  \/ RKF45Test
  \/ ReadDistance

Spec == Init /\ [][Next]_vars

\* a call in progress keeps executing
FairSpec == Spec /\ WF_vars(EulerStep \/ RK4Step \/ FixedReturn \/ RKF45Step \/ RKF45Test)

(* datasets/fetch.py *)

\* attempt_login up to its loop: the credentials of netrc, else of the keywords
\* or the environment, a prompt for each one that is missing
LoginCall(kretries, netrc, given) ==
  /\ login.pc = "idle"
  /\ LET cr == Credentials(netrc, given)
     IN  \E au \in (IF cr[1] = "" THEN Answers ELSE {<<cr[1]>>}) :
         \E ap \in (IF cr[2] = "" THEN Answers ELSE {<<cr[2]>>}) :
           login' =
             IF au = <<>> \/ ap = <<>>
             THEN [login EXCEPT !.pc = "raised", !.out = Raised("EOFError")]
             ELSE [login EXCEPT !.pc = "loop", !.retry = 0,
                     !.retries = IF kretries = <<>> THEN DefaultRetries ELSE kretries[1],
                     !.username = au[1], !.password = ap[1]]
  /\ UNCHANGED <<advect, query>>

\* one pass of the loop up to the check: build_opener, check_credentials;
\* return opener when the check raises nothing
LoginCheck ==
  /\ login.pc = "loop" /\ LoginMore(login.retry, login.retries)
  /\ \E ok \in BOOLEAN :
       LET built == <<[username |-> login.username, password |-> login.password]>>
       IN  login' =
             IF ok
             THEN [login EXCEPT !.pc = "returned", !.opener = built,
                     !.checks = @ + 1, !.out = Array(built)]
             ELSE [login EXCEPT !.pc = "reattempt", !.opener = built,
                     !.checks = @ + 1, !.failed = @ + 1]
  /\ UNCHANGED <<advect, query>>

\* the rest of the pass after a failed check: new username and password
LoginReattempt ==
  /\ login.pc = "reattempt"
  /\ \E au \in Answers : \E ap \in Answers :
       login' =
         IF au = <<>> \/ ap = <<>>
         THEN [login EXCEPT !.pc = "raised", !.out = Raised("EOFError")]
         ELSE [login EXCEPT !.pc = "loop", !.retry = @ + 1, !.asked = @ + 1,
                 !.username = au[1], !.password = ap[1]]
  /\ UNCHANGED <<advect, query>>

\* reached end of available retries
LoginEnd ==
  /\ login.pc = "loop" /\ ~LoginMore(login.retry, login.retries)
  /\ login' = [login EXCEPT !.pc = "raised", !.out = Raised("RuntimeError")]
  /\ UNCHANGED <<advect, query>>

\* the object the functions of datasets/fetch.py run beside
Beside == Ctor(FieldUniform, <<R(1)>>, <<R(2)>>, <<R(0)>>, 0, <<R(10)>>, 0, UnitsDefault)

InitLogin == Construct(Beside) /\ login = LoginIdle /\ query = QueryIdle

NextLogin ==
  \/ \E kr \in {<<>>} \cup {<<r>> : r \in 0..MaxRetries} :
     \E netrc \in {<<>>, <<<<"ann", "pw">>>>} :
     \E given \in {<<"", "">>, <<"ann", "">>, <<"", "pw">>, <<"bob", "pw">>} :
       LoginCall(kr, netrc, given)
  \/ LoginCheck
  \/ LoginReattempt
  \/ LoginEnd

SpecLogin == InitLogin /\ [][NextLogin]_vars

\* cmr up to its loop
QueryCall(endpoint) ==
  /\ query.pc = "idle"
  /\ query' = [query EXCEPT !.pc = "loop", !.endpoint = endpoint,
                 !.granule_urls = <<>>, !.cmr_search_after = <<>>]
  /\ UNCHANGED <<advect, login>>

\* one pass of the while loop of cmr, and the return after a break
QueryPage ==
  /\ query.pc = "loop" /\ Len(query.pages) < MaxPages
  /\ \E body \in Bodies : \E after \in SearchAfter(Len(query.pages) + 1) :
       LET header == IF Truthy(query.cmr_search_after) THEN query.cmr_search_after ELSE <<>>
           urls == cmr_filter_json(body, query.endpoint)
       IN  query' =
             IF QueryBreak(urls, after)
             THEN [query EXCEPT !.pc = "returned", !.cmr_search_after = after,
                     !.sent = Append(@, header),
                     !.pages = Append(@, [urls |-> urls, after |-> after]),
                     !.out = Array(query.granule_urls)]
             ELSE [query EXCEPT !.cmr_search_after = after,
                     !.sent = Append(@, header),
                     !.pages = Append(@, [urls |-> urls, after |-> after]),
                     !.granule_urls = @ \o urls]
  /\ UNCHANGED <<advect, login>>

\* opener.open raises (HTTPError, URLError): cmr lets it through
QueryFail ==
  /\ query.pc = "loop" /\ Len(query.pages) < MaxPages
  /\ query' = [query EXCEPT !.pc = "raised",
                 !.sent = Append(@, IF Truthy(query.cmr_search_after)
                                    THEN query.cmr_search_after ELSE <<>>),
                 !.out = Raised("URLError")]
  /\ UNCHANGED <<advect, login>>

InitCmr == Construct(Beside) /\ login = LoginIdle /\ query = QueryIdle

NextCmr ==
  \/ \E endpoint \in {"data", "opendap", "s3"} : QueryCall(endpoint)
  \/ QueryPage
  \/ QueryFail

SpecCmr == InitCmr /\ [][NextCmr]_vars

(* Properties *)

\* the uniform fields of the model: U = V = 1/10 at every node
IsUniform(f) ==
  f.Ug = Const(Q(1, 10), 2) /\ f.Vg = Const(Q(1, 10), 2) /\ f.rate = R(0)

\* where particle k ends when carried at (u, v) = (1/10, 1/10) from t to t0
EndX(k) == Add(x[k], Mul(Q(1, 10), Sub(Bc(t0, k), Bc(t, k))))
EndY(k) == Add(y[k], Mul(Q(1, 10), Sub(Bc(t0, k), Bc(t, k))))

\* every particle starts and ends inside the grid, so that every sample of the
\* straight path is taken where the field is (u, v)
PathInGrid ==
  \A k \in 1..P : InGrid(velocity, x[k], y[k]) /\ InGrid(velocity, EndX(k), EndY(k))

\* the last call was given no N, and reached the step planner
Planned == calls > 0 /\ kw.N = <<>> /\ ret # "AmbiguousTruth"

\* the step of the last call, in seconds
StepOf == IF kw.step = <<>> THEN R(DefaultStep) ELSE R(kw.step[1])

\* the largest |t0_i - t_i| over the particles
LargestSpan == MaxOf([k \in 1..P |-> AbsQ(Sub(Bc(t0, k), Bc(t, k)))])

\* C1: in a field that is (u, v) everywhere the particles go, a call of euler,
\* RK4 or RKF45 with N >= 1 ends with x0 = x + u*(t0 - t), y0 = y + v*(t0 - t)
\* for every particle, forward and backward in time.
C1_UniformExact ==
  (ret = "ok" /\ kw.n >= 1 /\ IsUniform(velocity) /\ PathInGrid)
    => \A k \in 1..P : x0[k] = EndX(k) /\ y0[k] = EndY(k)

\* an RKF45 call with N >= 1 has carried a particle backward in time
C1_Witness ==
  /\ ret = "ok" /\ integrator = "RKF45" /\ kw.n >= 1
  /\ IsUniform(velocity) /\ PathInGrid
  /\ Lt(t0[1], t[1]) /\ Lt(x0[1], x[1])

\* C2: through run, with t and t0 in the caller's units, a step in seconds and
\* no N, a uniform field gives x_new = x + u*(t0 - t), y_new = y + v*(t0 - t),
\* t0 - t measured in the caller's units, for every integrator.
C2_EndToEnd ==
  (/\ ret = "ok" /\ IsUniform(velocity) /\ PathInGrid
   /\ kw.N = <<>> /\ kw.step # <<>>
   /\ t0 = NormalizeAll(arg.t0, arg.units))
    => \A k \in 1..P :
         LET span == Sub(Bc(arg.t0, k), Bc(arg.t, k))
         IN  /\ x0[k] = Add(arg.x[k], Mul(Q(1, 10), span))
             /\ y0[k] = Add(arg.y[k], Mul(Q(1, 10), span))

\* C3: when an RKF45 call returns, sigma of the 4th and 5th order trajectories
\* at the final scale is defined and at most the tolerance, and the result is
\* the 4th order trajectory it was computed from.
C3_ReturnWithinTolerance ==
  (ret = "ok" /\ integrator = "RKF45")
    => /\ sigma2 = Sigma2(X4OA, Y4OA, X5OA, Y5OA)
       /\ ~IsNaN(sigma2)
       /\ Le(sigma2, Sq(Q(1, 20)))
       /\ i = scale * kw.n
       /\ x0 = X4OA /\ y0 = Y4OA

\* an RKF45 call has returned at a doubled scale with a sigma that is not zero
C3_Witness ==
  /\ ret = "ok" /\ integrator = "RKF45"
  /\ scale > 1 /\ Gt(sigma2, R(0))

\* C4: every RKF45 call ends: a call that is running eventually returns or
\* fails (the scales above MaxScale are those the model does not follow).
C4_Terminates == (pc = "RKF45") ~> (pc = "idle" \/ scale > MaxScale)

CallerTolerance == IF kw.tolerance = <<>> THEN Q(1, 20) ELSE kw.tolerance[1]

\* C6: RKF45 tests sigma against the tolerance of the request: a pass is
\* repeated at twice the scale only when its sigma was above that tolerance.
C6_CallerTolerance ==
  (pc = "RKF45" /\ i = 0 /\ scale > 1 /\ ~IsNaN(sigma2))
    => Gt(sigma2, Sq(CallerTolerance))

\* C7: every sample of an integration queries the provider with the method
\* configured for the request.
C7_ConfiguredMethod == qmethods \subseteq {method}

\* C8: with an explicit N the integration uses exactly N: the step size is
\* (t0 - t) / (scale * N) and a fixed-step scheme returns after N passes,
\* whatever the planner would have computed.
C8_ExplicitN ==
  (calls > 0 /\ kw.N # <<>> /\ ret \in {"none", "ok"})
    => /\ kw.n = kw.N[1]
       /\ (integrator \in {"euler", "RK4"} =>
             \A k \in 1..P : dt[k] = Div(Sub(Bc(t0, k), Bc(t, k)), R(kw.N[1])))
       /\ (ret = "ok" /\ integrator \in {"euler", "RK4"} => i = kw.N[1])
       /\ nsamp <= 4 * kw.N[1]

\* a call with N = 2 has returned where the planner would have planned another count
C8_Witness ==
  /\ ret = "ok" /\ kw.N = <<2>> /\ i = 2 /\ nsamp = 8
  /\ Int64(PlannedSteps(t, t_nd, t0, t0_nd, StepOf)) # 2

\* C9: without N the planner returns the floor of |max(t) - min(t0)| / step if
\* min(t0) < min(t), else of |max(t0) - min(t)| / step if max(t0) > max(t),
\* else of max|t0 - t| / step if t or t0 is a scalar, else of
\* |mean(t0) - mean(t)| / step; t = 0, t0 = 10, step = 2 and t = [0, 5],
\* t0 = 10, step = 2 both give 5.
C9_Planner ==
  /\ Planned =>
       kw.n = Floor(Div(
                IF Lt(MinOf(t0), MinOf(t)) THEN AbsQ(Sub(MaxOf(t), MinOf(t0)))
                ELSE IF Gt(MaxOf(t0), MaxOf(t)) THEN AbsQ(Sub(MaxOf(t0), MinOf(t)))
                ELSE IF t_nd = 0 \/ t0_nd = 0 THEN LargestSpan
                ELSE AbsQ(Sub(MeanOf(t0), MeanOf(t))),
                StepOf))
  /\ (/\ Planned /\ kw.step = <<2>> /\ kw.t0 = <<>>
      /\ arg.t \in {<<R(0)>>, <<R(0), R(5)>>} /\ arg.t0 = <<R(10)>>
      /\ t0 = NormalizeAll(arg.t0, arg.units))
       => kw.n = 5

\* the planner has returned 5 for t = [0, 5], t0 = 10, step = 2
C9_Witness ==
  /\ Planned /\ ret = "ok" /\ kw.step = <<2>> /\ kw.n = 5
  /\ arg.t = <<R(0), R(5)>> /\ arg.t0 = <<R(10)>>

\* the planner took its last branch: t and t0 are both arrays and t0 lies
\* within the range of t
MeanBranch ==
  /\ ~Lt(MinOf(t0), MinOf(t)) /\ ~Gt(MaxOf(t0), MaxOf(t))
  /\ t_nd # 0 /\ t0_nd # 0

\* C10: the planned N covers the largest span any particle travels:
\* N >= floor(max_i |t0_i - t_i| / step), in each of the four branches.
C10_CoversLargestSpan ==
  Planned => kw.n >= Floor(Div(LargestSpan, StepOf))

\* C10, amended: N >= floor(max_i |t0_i - t_i| / step) in the backward, the
\* forward and the scalar branch, for a target time of one element.
C10_CoversOutsideMean ==
  (Planned /\ ~MeanBranch /\ Len(t0) = 1)
    => kw.n >= Floor(Div(LargestSpan, StepOf))

\* the scalar branch has planned a positive N for particles of different spans
C10_Witness ==
  /\ Planned /\ ~MeanBranch /\ P = 2 /\ Len(t) = 2 /\ t[1] # t[2]
  /\ ~Lt(MinOf(t0), MinOf(t)) /\ ~Gt(MaxOf(t0), MaxOf(t))
  /\ kw.n = 3 /\ ret = "ok"

\* C11: with a time axis [tmin, tmax] every time handed to the provider lies in
\* [tmin, tmax]: the query time when that is in range, the nearest bound
\* otherwise; without a time axis the query carries no time
C11_ClampedTime ==
  \A q \in qtimes :
    IF velocity.hasT
    THEN /\ Len(q.handed) = 1
         /\ Le(velocity.tmin, q.handed[1]) /\ Le(q.handed[1], velocity.tmax)
         /\ (Le(velocity.tmin, q.at) /\ Le(q.at, velocity.tmax)) => q.handed[1] = q.at
         /\ Lt(q.at, velocity.tmin) => q.handed[1] = velocity.tmin
         /\ Lt(velocity.tmax, q.at) => q.handed[1] = velocity.tmax
    ELSE q.handed = <<>>

\* a call whose cursor started below the time axis, crossed it and left it above
C11_Witness ==
  /\ velocity.hasT /\ ret = "ok"
  /\ \E q \in qtimes : Lt(q.at, velocity.tmin)
  /\ \E q \in qtimes : Lt(velocity.tmin, q.at) /\ Lt(q.at, velocity.tmax)
  /\ \E q \in qtimes : Lt(velocity.tmax, q.at)

\* C12: a call that returns after an earlier returned call on the same object
\* with the same request (scheme, method, step, N, target time; field, x, y, t
\* are the object's) returns the same x0, y0 as that call
C12_Repeatable ==
  (pc = "idle" /\ ret = "ok" /\ prev.req = LastRequest) =>
    (x0 = prev.x0 /\ y0 = prev.y0)

\* a second call with the request of the first has returned, away from the source
C12_Witness ==
  /\ pc = "idle" /\ ret = "ok" /\ calls = 2
  /\ prev.req = LastRequest
  /\ kw.n >= 2
  /\ x0 # x /\ x0 = prev.x0 /\ y0 = prev.y0

\* C13: a read of distance while x0, y0 do not exist (no integration has
\* produced them: before the first call and after calls that failed before
\* their integrator) gives None and raises nothing
C13_DistanceUnavailable ==
  (dist # Unread /\ x0 = <<>>) => dist = None

\* distance read on a fresh object, and read after a call that failed
C13_Witness ==
  /\ dist = None /\ x0 = <<>>
  /\ calls >= 1 /\ ret \in {"InvalidScheme", "AmbiguousTruth"}

\* C14: after an integration distance is, per particle, the Euclidean distance
\* between source and final coordinates, distance^2 = (x0 - x)^2 + (y0 - y)^2
\* and distance >= 0, with the x0, y0 of the last completed integration; for
\* x = 0, y = 0, x0 = 3, y0 = 4 it is 5 (its square 25)
C14_Distance ==
  dist.kind = "array" =>
    /\ x0 # <<>> /\ Len(dist.val) = P
    /\ \A k \in 1..P :
         LET dx == Sub(x0[k], x[k])
             dy == Sub(y0[k], y[k])
         IN  /\ dist.val[k] = Add(Mul(dx, dx), Mul(dy, dy))
             /\ IsNaN(dist.val[k]) \/ Le(R(0), dist.val[k])
             /\ (x[k] = R(0) /\ y[k] = R(0) /\ x0[k] = R(3) /\ y0[k] = R(4)) =>
                  dist.val[k] = R(25)

\* the 3-4-5 instance has been read after a call that returned
C14_Witness ==
  /\ ret = "ok" /\ dist.kind = "array"
  /\ x = <<R(0)>> /\ y = <<R(0)>> /\ x0 = <<R(3)>> /\ y0 = <<R(4)>>
  /\ dist.val = <<R(25)>>

\* C15: after any sequence of calls, returned or failed, and at every point
\* inside them, the source coordinates x, y and the source times t are those
\* of the construction and the velocity provider is the one given
C15_SourceUnchanged ==
  /\ x = arg.x /\ y = arg.y
  /\ t = NormalizeAll(arg.t, arg.units) /\ t_nd = arg.tnd
  /\ velocity = arg.ds

\* a call has moved the particles and the call after it has failed
C15_Witness ==
  /\ calls = 2 /\ ret = "InvalidScheme"
  /\ x0 # <<>> /\ x0 # x /\ y0 # y
  /\ qtimes = {} /\ prev.x0 = x0

\* sampler calls per sub-step of a scheme, as stated
StatedCallsPerStep == [euler |-> 1, RK4 |-> 4, RKF45 |-> 6]

\* C16: a returned euler run has made N sampler calls, an RK4 run 4N, and the
\* last attempt of a returned RKF45 run 6*scale*N
C16_SamplerCalls ==
  (pc = "idle" /\ ret = "ok") =>
    nsamp = StatedCallsPerStep[integrator] * scale * kw.n

\* the point reached from (px, py) at time tv by n forward-Euler sub-steps of
\* size h in the object's field, each starting where the one before ended
RECURSIVE EulerFrom(_, _, _, _, _)
EulerFrom(px0, py0, tv0, h, n) ==
  CHOOSE r \in
    { IF n = 0 THEN <<px, py>>
      ELSE LET uv == Interp(velocity, px, py, tv, SamplerKwargs)
           IN  EulerFrom(Add(px, Mul(uv[1], h)), Add(py, Mul(uv[2], h)),
                         Add(tv, h), h, n - 1) :
      px \in {px0}, py \in {py0}, tv \in {tv0} } : TRUE

\* one pass of the loop of euler: sample at (x0, y0, cursor), then advance
C17_Step ==
  (pc = "euler" /\ i' # i) =>
    /\ i < kw.n /\ i' = i + 1 /\ pc' = "euler" /\ dt' = dt
    /\ \A k \in 1..P :
         LET uv == Interp(velocity, x0[k], y0[k], tcur[k], SamplerKwargs)
         IN  /\ x0'[k] = Add(x0[k], Mul(uv[1], dt[k]))
             /\ y0'[k] = Add(y0[k], Mul(uv[2], dt[k]))
             /\ tcur'[k] = Add(tcur[k], dt[k])

\* euler returns after its N-th pass and not before
C17_Stop == (pc = "euler" /\ pc' # "euler") => (i = kw.n /\ ret' = "ok" /\ x0' = x0 /\ y0' = y0)

\* the result of a returned euler call is N sub-steps in sequence from the source
C17_Path ==
  (pc = "idle" /\ ret = "ok" /\ integrator = "euler") =>
    /\ i = kw.n
    /\ \A k \in 1..P :
         <<x0[k], y0[k]>> =
           EulerFrom(x[k], y[k], Bc(t, k), Div(Sub(Bc(t0, k), Bc(t, k)), R(kw.n)), kw.n)

\* C17: euler performs exactly N sub-steps in sequence, each from the output of
\* the one before: sample (U, V) at (x0, y0, cursor), x0 += U*dt, y0 += V*dt,
\* cursor += dt; it returns after the N-th, with x0, y0 the end of that path
C17_Euler == []C17_Path /\ [][C17_Step /\ C17_Stop]_vars

\* an euler call of three or more sub-steps returned in a field that varies
\* along the path
C17_Witness ==
  /\ pc = "idle" /\ ret = "ok" /\ integrator = "euler" /\ kw.n >= 3 /\ i = kw.n
  /\ ~IsUniform(velocity) /\ IsFinite(x0[1]) /\ x0[1] # x[1]

\* the point a stage is sampled at: h * c times the velocity uv away from (px, py)
StagePoint(px, py, uv, c, h) ==
  <<Add(px, Mul(Mul(c, uv[1]), h)), Add(py, Mul(Mul(c, uv[2]), h))>>

\* the position after one classical RK4 sub-step from (px, py) at time tv,
\* every stage predicted from (px, py)
RK4_Stated(px0, py0, h, tv0) ==
  CHOOSE r \in
    { LET k1 == Interp(velocity, px, py, tv, SamplerKwargs)
          p2 == StagePoint(px, py, k1, Q(1, 2), h)
          k2 == Interp(velocity, p2[1], p2[2], tv, SamplerKwargs)
          p3 == StagePoint(px, py, k2, Q(1, 2), h)
          k3 == Interp(velocity, p3[1], p3[2], tv, SamplerKwargs)
          p4 == StagePoint(px, py, k3, R(1), h)
          k4 == Interp(velocity, p4[1], p4[2], tv, SamplerKwargs)
          w == [c \in 1..2 |->
                  Add(Add(Add(k1[c], Mul(R(2), k2[c])), Mul(R(2), k3[c])), k4[c])]
      IN  <<Add(px, Div(Mul(h, w[1]), R(6))), Add(py, Div(Mul(h, w[2]), R(6)))>> :
      px \in {px0}, py \in {py0}, tv \in {tv0} } : TRUE

\* C18: each RK4 sub-step samples stage 1 at (x0, y0), stage 2 at
\* (x0, y0) + 0.5*dt*k1, stage 3 at (x0, y0) + 0.5*dt*k2, stage 4 at
\* (x0, y0) + dt*k3, every stage from the starting position of the sub-step,
\* and advances (x0, y0) by dt*(k1 + 2 k2 + 2 k3 + k4)/6
C18_RK4Step ==
  [][(pc = "RK4" /\ i' # i) =>
       /\ i' = i + 1
       /\ \A k \in 1..P :
            <<x0'[k], y0'[k]>> = RK4_Stated(x0[k], y0[k], dt[k], tcur[k])]_vars

\* an RK4 call returned in the sheared field, where the velocity differs from
\* stage to stage
C18_Witness ==
  /\ pc = "idle" /\ ret = "ok" /\ integrator = "RK4" /\ kw.n >= 1
  /\ ~IsUniform(velocity) /\ IsFinite(x0[1]) /\ x0[1] # x[1]

\* both trajectories and the cursor, st = <<X4, Y4, X5, Y5, tc>>, after m more
\* sub-steps of size h
RECURSIVE AttemptFrom(_, _, _)
AttemptFrom(st0, h, m) ==
  CHOOSE r \in
    { IF m = 0 THEN st
      ELSE LET a4 == [k \in 1..P |->
                        RKF45_advance(velocity, RKF_b4, st[1][k], st[2][k], h[k], st[5][k])]
               a5 == [k \in 1..P |->
                        RKF45_advance(velocity, RKF_b5, st[3][k], st[4][k], h[k], st[5][k])]
           IN  AttemptFrom(<<[k \in 1..P |-> a4[k][1]], [k \in 1..P |-> a4[k][2]],
                             [k \in 1..P |-> a5[k][1]], [k \in 1..P |-> a5[k][2]],
                             [k \in 1..P |-> Add(st[5][k], h[k])]>>, h, m - 1) :
      st \in {st0} } : TRUE

\* the attempt at scale sc of the call in progress: sc*N sub-steps of size
\* (t0 - t)/(sc*N) from the source coordinates and the source times
Attempt(sc) ==
  AttemptFrom(<<x, y, x, y, [k \in 1..P |-> Bc(t, k)]>>,
              [k \in 1..P |-> Div(Sub(Bc(t0, k), Bc(t, k)), R(sc * kw.n))],
              sc * kw.n)

\* sigma squared of that attempt
AttemptSigma2(sc) ==
  CHOOSE r \in { Sigma2(a[1], a[2], a[3], a[4]) : a \in {Attempt(sc)} } : TRUE

\* the scales of the outer loop, in order
Doublings == {1, 2, 4, 8}

\* scale starts at 1 and only doubles; every pass starts from the source and
\* runs scale*N sub-steps before it is tested
C19_Loop ==
  /\ (pc # "RKF45" /\ pc' = "RKF45") => scale' = 1
  /\ pc = "RKF45" =>
       /\ scale' \in {scale, 2 * scale}
       /\ (scale' # scale \/ sigma2' # sigma2 \/ pc' # pc) => i = scale * kw.n
       /\ i' \in {i, i + 1, 0}
  /\ (pc' = "RKF45" /\ i' = 0 /\ (i # 0 \/ pc # "RKF45")) =>
       /\ X4OA' = x /\ Y4OA' = y /\ X5OA' = x /\ Y5OA' = y
       /\ \A k \in 1..P :
            /\ tcur'[k] = Bc(t, k)
            /\ dt'[k] = Div(Sub(Bc(t0', k), Bc(t, k)), R(scale' * kw'.n))

\* the result of a returned call is the 4th-order end of the attempt at the
\* final scale, that attempt passes the test and every attempt before it, at
\* the smaller scales, does not
C19_First ==
  (pc = "idle" /\ ret = "ok" /\ integrator = "RKF45") =>
    /\ scale \in Doublings
    /\ \E a \in {Attempt(scale)} :
         /\ x0 = a[1] /\ y0 = a[2]
         /\ Le(Sigma2(a[1], a[2], a[3], a[4]), Sq(RKF45_tolerance))
    /\ \A sc \in Doublings :
         sc < scale => ~Le(AttemptSigma2(sc), Sq(RKF45_tolerance))

\* C19: the outer loop of RKF45 starts at scale 1 and scale only doubles; every
\* attempt restarts both trajectories from the source coordinates and the
\* cursor from the source times, with dt = (t0 - t)/(scale*N), and runs
\* scale*N sub-steps; a returned result is that of the first attempt, in this
\* order, that passes the test
C19_OuterLoop == []C19_First /\ [][C19_Loop]_vars

\* a call returned by its second or a later attempt
C19_Witness ==
  /\ pc = "idle" /\ ret = "ok" /\ integrator = "RKF45"
  /\ scale >= 2 /\ kw.n >= 1 /\ x0 # x

\* the acceptance test, as stated: sigma <= tolerance or sigma not-a-number
Accepted(s2) == Le(s2, Sq(tolerance)) \/ IsNaN(s2)

\* C20: an attempt is accepted exactly when sigma <= tolerance or sigma is
\* not-a-number; acceptance sets x0, y0 to (X4, Y4) and ends the loop, so while
\* the loop goes on after a test the attempt tested was rejected and x0, y0
\* are the source coordinates
C20_AcceptEndsLoop ==
  /\ (pc = "idle" /\ ret = "ok" /\ integrator = "RKF45") =>
       (Accepted(sigma2) /\ x0 = X4OA /\ y0 = Y4OA)
  /\ (pc = "RKF45" /\ sigma2 # Inf) =>
       (~Accepted(sigma2) /\ x0 = x /\ y0 = y)

\* the particles whose 4th-order and 5th-order trajectories are both finite
BothFinite(X4, Y4, X5, Y5) ==
  {k \in 1..Len(X4) : /\ IsFinite(X4[k]) /\ IsFinite(Y4[k])
                      /\ IsFinite(X5[k]) /\ IsFinite(Y5[k])}

\* sigma squared as stated: the mean of (X5-X4)^2 + (Y5-Y4)^2 over BothFinite
StatedSigma2(X4, Y4, X5, Y5) ==
  LET B == BothFinite(X4, Y4, X5, Y5)
  IN  Div(SumSq(B, X4, Y4, X5, Y5), R(Cardinality(B)))

\* an attempt of RKF45 has run its sub-steps and is about to be tested
AttemptComplete == pc = "RKF45" /\ i = scale * kw.n /\ scale <= MaxScale

\* C21: the sigma computed for a complete attempt is the root of the mean of
\* (X5-X4)^2 + (Y5-Y4)^2 over the particles finite in both trajectories, and is
\* a number while at least one particle is finite in both
C21_SigmaBothFinite ==
  AttemptComplete =>
    /\ Sigma2(X4OA, Y4OA, X5OA, Y5OA) = StatedSigma2(X4OA, Y4OA, X5OA, Y5OA)
    /\ BothFinite(X4OA, Y4OA, X5OA, Y5OA) # {} =>
         ~IsNaN(Sigma2(X4OA, Y4OA, X5OA, Y5OA))

\* the number of sub-steps of the pass in progress: N, or scale*N in RKF45
PassSteps == IF integrator = "RKF45" THEN scale * kw.n ELSE kw.n

\* the time of particle k after j sub-steps of a pass of m sub-steps
TimeAfter(k, j, m) ==
  Add(Bc(t, k), Mul(R(j), Div(Sub(Bc(t0, k), Bc(t, k)), R(m))))

\* inside a pass, and after it has returned: dt, the cursor and the start
C22_Cursor ==
  (ret \in {"none", "ok"} /\ calls >= 1 /\ kw.n >= 1 /\ scale <= MaxScale) =>
    /\ i \in 0..PassSteps
    /\ \A k \in 1..P :
         /\ dt[k] = Div(Sub(Bc(t0, k), Bc(t, k)), R(PassSteps))
         /\ tcur[k] = TimeAfter(k, i, PassSteps)
         /\ Le(AbsQ(Sub(Bc(t0, k), tcur[k])), AbsQ(Sub(Bc(t0, k), Bc(t, k))))
    /\ (pc # "idle" /\ i = 0) =>
         IF pc = "RKF45"
         THEN X4OA = x /\ Y4OA = y /\ X5OA = x /\ Y5OA = y
         ELSE x0 = x /\ y0 = y
    /\ pc = "idle" => (i = PassSteps /\ \A k \in 1..P : tcur[k] = Bc(t0, k))

\* the velocity is sampled at the cursor values t, t + dt, ..., t + (M-1) dt of
\* a pass only (for RKF45: of the passes at the scales up to the present one)
C22_Sampled ==
  (ret \in {"none", "ok"} /\ kw.n >= 1) =>
    \A q \in qtimes :
      \E k \in 1..P, sc \in {1, 2, 4} :
        /\ sc <= scale /\ (sc = 1 \/ integrator = "RKF45")
        /\ \E j \in 0..(sc * kw.n - 1) : q.at = TimeAfter(k, j, sc * kw.n)

\* every sub-step moves the cursor towards t0
C22_Towards ==
  (pc # "idle" /\ pc' = pc /\ i' = i + 1) =>
    \A k \in 1..P :
      /\ tcur'[k] = Add(tcur[k], dt[k])
      /\ Le(AbsQ(Sub(Bc(t0, k), tcur'[k])), AbsQ(Sub(Bc(t0, k), tcur[k])))

\* C22: in every scheme with M >= 1 sub-steps, dt = (t0 - t)/M, the working
\* position starts at the source coordinates and the cursor at the source
\* time, after k sub-steps the cursor is t + k*dt, it moves monotonically
\* towards t0, the velocity is sampled at t, t + dt, ..., t + (M-1)*dt only,
\* and the cursor is t0 when the scheme terminates
C22_TimeCursor == []C22_Cursor /\ []C22_Sampled /\ [][C22_Towards]_vars

\* an RKF45 call has returned from a pass at scale 2 with the cursor at t0,
\* having sampled at the 2N cursor values of that pass
C22_Witness ==
  /\ pc = "idle" /\ ret = "ok" /\ integrator = "RKF45"
  /\ scale = 2 /\ kw.n >= 1 /\ i = 2 * kw.n
  /\ tcur[1] = Bc(t0, 1) /\ Cardinality(qtimes) = 2 * kw.n

\* the value of particle k in an array that holds one value for all or one each
Own(s, k) == IF Len(s) = 1 THEN s[1] ELSE s[k]

\* the point reached from (px, py) at time tv by n RK4 sub-steps of size h
RECURSIVE RK4From(_, _, _, _, _)
RK4From(px0, py0, tv0, h, n) ==
  CHOOSE r \in
    { IF n = 0 THEN p
      ELSE RK4From(RK4_Stated(p[1], p[2], h, tv)[1], RK4_Stated(p[1], p[2], h, tv)[2],
                   Add(tv, h), h, n - 1) :
      p \in {<<px0, py0>>}, tv \in {tv0} } : TRUE

\* the result of a particle advected alone: a function of its own source
\* coordinates, source time and target time, of the scheme, N and the field
Alone(scheme, px, py, ts, te, n) ==
  IF scheme = "euler"
  THEN EulerFrom(px, py, ts, Div(Sub(te, ts), R(n)), n)
  ELSE RK4From(px, py, ts, Div(Sub(te, ts), R(n)), n)

\* C23: for euler and RK4 with a given N the returned (x0, y0) of a particle
\* is what the particle gives when advected alone: the other particles of the
\* batch have no part in it
C23_BatchIndependent ==
  (pc = "idle" /\ ret = "ok" /\ integrator \in {"euler", "RK4"}) =>
    \A k \in 1..P :
      <<x0[k], y0[k]>> = Alone(integrator, x[k], y[k], Own(t, k), Own(t0, k), kw.n)

\* a batch of two particles with different source times has returned moved
C23_Witness ==
  /\ pc = "idle" /\ ret = "ok" /\ integrator \in {"euler", "RK4"}
  /\ P = 2 /\ kw.n >= 2 /\ x0[1] # x[1] /\ x0[2] # x[2]
  /\ Own(t, 1) # Own(t, 2) /\ IsFinite(x0[1]) /\ IsFinite(x0[2])

\* a coordinate pair that holds a not-a-number
Lost(px, py) == IsNaN(px) \/ IsNaN(py)

\* the sampler gives not-a-number at (px, py, tv)
SampleLost(px, py, tv) ==
  \E uv \in {Interp(velocity, px, py, tv, SamplerKwargs)} : IsNaN(uv[1]) \/ IsNaN(uv[2])

\* a sub-step whose first sample is not-a-number, or that starts from
\* not-a-number, leaves the working coordinates of the particle not-a-number,
\* and the return hands them over as they are
C24_Sticky ==
  /\ (pc \in {"euler", "RK4"} /\ i' = i + 1) =>
       \A k \in 1..P :
         (Lost(x0[k], y0[k]) \/ SampleLost(x0[k], y0[k], tcur[k])) =>
           (IsNaN(x0'[k]) /\ IsNaN(y0'[k]))
  /\ (pc = "RKF45" /\ i' = i + 1) =>
       \A k \in 1..P :
         /\ (Lost(X4OA[k], Y4OA[k]) \/ SampleLost(X4OA[k], Y4OA[k], tcur[k])) =>
              (IsNaN(X4OA'[k]) /\ IsNaN(Y4OA'[k]))
         /\ (Lost(X5OA[k], Y5OA[k]) \/ SampleLost(X5OA[k], Y5OA[k], tcur[k])) =>
              (IsNaN(X5OA'[k]) /\ IsNaN(Y5OA'[k]))
  /\ (pc # "idle" /\ pc' = "idle") =>
       /\ ret' = "ok"
       /\ \A k \in 1..P :
            (IF pc = "RKF45" THEN Lost(X4OA[k], Y4OA[k]) ELSE Lost(x0[k], y0[k])) =>
              (IsNaN(x0'[k]) /\ IsNaN(y0'[k]))

\* the test of an attempt comes out as it does for the remaining particles alone
C24_AsIfAbsent ==
  (AttemptComplete /\ BothFinite(X4OA, Y4OA, X5OA, Y5OA) # {}) =>
    (RKF45_accept(Sigma2(X4OA, Y4OA, X5OA, Y5OA), tolerance)
       <=> Le(StatedSigma2(X4OA, Y4OA, X5OA, Y5OA), Sq(tolerance)))

\* C24: when the sampler returns not-a-number for a particle no error is raised
\* and nothing is masked: the particle's working coordinates are not-a-number
\* at every later sub-step and in the returned x0, y0, and the other particles
\* are computed as if it were absent
C24_NaNUnmasked == []C24_AsIfAbsent /\ [][C24_Sticky]_vars

\* the target times a caller of this object can have given, in the caller's
\* units: at construction, or as the t0 keyword of a call
TargetsGiven == {arg.t0} \cup {c.t0 : c \in {d \in KwCalls : d.t0 # <<>>}}

\* C25: every target time the step planner and dt = (t0 - t)/N consume has
\* passed through the time normalizer and is on the canonical axis of the
\* source times, whether it was given at construction or as the t0 keyword
C25_TargetNormalized ==
  /\ t = NormalizeAll(arg.t, arg.units)
  /\ \E g \in TargetsGiven : t0 = NormalizeAll(g, arg.units)

\* the call in progress or last made got N = 0 from the planner although some
\* particle has a target time other than its source time
ZeroSteps ==
  /\ calls >= 1 /\ ret \in {"none", "ok"}
  /\ kw.N = <<>> /\ kw.n = 0
  /\ \E k \in 1..P : Bc(t0, k) # Bc(t, k)

\* no sub-step, no sample, scale 1, particles at the source
C26_Unmoved ==
  ZeroSteps =>
    /\ i = 0 /\ nsamp = 0 /\ qtimes = {} /\ scale = 1
    /\ x0 = x /\ y0 = y

\* the step a call with N = 0 takes is its return, without an error
C26_Returns ==
  (ZeroSteps /\ pc # "idle") => (pc' = "idle" /\ ret' = "ok" /\ x0' = x /\ y0' = y)

\* C26: when the planner yields N = 0 although t0 differs from t, euler and RK4
\* execute no sub-step and make no sampler call, RKF45 terminates at scale 1,
\* and all three return x0 = x, y0 = y without an error
C26_ZeroSteps == []C26_Unmoved /\ [][C26_Returns]_vars

\* RKF45 has returned with N = 0 at scale 1: sigma is 0, the particles unmoved
C26_Witness ==
  /\ ZeroSteps /\ pc = "idle" /\ ret = "ok" /\ integrator = "RKF45"
  /\ sigma2 = R(0) /\ x0 = x

\* a call of translate: the values the object holds after it are the keyword
\* where one is given and the value held before where it is left out; a
\* selector that is no scheme makes the call fail, given or held over
C27_Call ==
  (calls' = calls + 1) =>
    /\ integrator' = IF kw'.integrator = <<>> THEN integrator ELSE kw'.integrator[1]
    /\ method' = IF kw'.method = <<>> THEN method ELSE kw'.method[1]
    /\ t0' = IF kw'.t0 = <<>> THEN t0 ELSE <<kw'.t0[1]>>
    /\ integrator' \notin {"euler", "RK4", "RKF45"} =>
         (pc' = "idle" /\ ret' \in {"InvalidScheme", "AmbiguousTruth"})
    /\ (integrator' \in {"euler", "RK4", "RKF45"} /\ ret' = "none") => pc' = integrator'

\* C27: translate stores every integrator, method and t0 override on the object
\* before dispatching, so a later call that omits the keyword uses the value of
\* the most recent earlier call; the overrides are stored even when the call
\* fails with the invalid-scheme error, after which a call without an
\* integrator keyword fails again
C27_OverridesStored == [][C27_Call]_vars

\* the six stage velocities of a Fehlberg sub-step from (px, py), each sampled
\* at the one time tv
RECURSIVE StagesAt(_, _, _, _, _)
StagesAt(px, py, h, tv, us0) ==
  CHOOSE r \in
    { IF Len(us) = 6 THEN us
      ELSE LET s == Len(us)
               qx == IF s = 0 THEN px
                     ELSE Add(px, Mul(Dot(RKF_A[s], [j \in 1..s |-> us[j][1]], s), h))
               qy == IF s = 0 THEN py
                     ELSE Add(py, Mul(Dot(RKF_A[s], [j \in 1..s |-> us[j][2]], s), h))
           IN  StagesAt(px, py, h, tv,
                        Append(us, Interp(velocity, qx, qy, tv, SamplerKwargs))) :
      us \in {us0} } : TRUE

\* the position after the sub-step with weights b, all stages sampled at tv
RKF_Stated(b, px, py, h, tv) ==
  CHOOSE r \in
    { <<Add(px, Mul(h, Dot(b, [j \in 1..6 |-> us[j][1]], 6))),
        Add(py, Mul(h, Dot(b, [j \in 1..6 |-> us[j][2]], 6)))>> :
      us \in {StagesAt(px, py, h, tv, <<>>)} } : TRUE

\* C28: within one sub-step of RK4 (4 stages) and of RKF45 (6 stages) every
\* stage velocity is sampled at the same time, the cursor at the start of the
\* sub-step; the cursor advances by dt after the position update only
C28_StagesSameTime ==
  [][(pc \in {"RK4", "RKF45"} /\ i' = i + 1) =>
       \A k \in 1..P :
         /\ tcur'[k] = Add(tcur[k], dt[k])
         /\ pc = "RK4" =>
              <<x0'[k], y0'[k]>> = RK4_Stated(x0[k], y0[k], dt[k], tcur[k])
         /\ pc = "RKF45" =>
              /\ <<X4OA'[k], Y4OA'[k]>> = RKF_Stated(RKF_b4, X4OA[k], Y4OA[k], dt[k], tcur[k])
              /\ <<X5OA'[k], Y5OA'[k]>> = RKF_Stated(RKF_b5, X5OA[k], Y5OA[k], dt[k], tcur[k])]_vars

\* an RKF45 call of two or more sub-steps has returned in a field that changes
\* from one sub-step to the next
C28_Witness ==
  /\ pc = "idle" /\ ret = "ok" /\ integrator = "RKF45"
  /\ velocity.hasT /\ velocity.rate # R(0) /\ i >= 2
  /\ x0 # x /\ IsFinite(x0[1])


\* what holds of a call of attempt_login at every moment: no more checks than
\* retries; every check so far failed unless the call has returned; a prompt
\* for new credentials followed every failed check but the one just made
C29_Counts ==
  /\ login.checks <= login.retries
  /\ login.pc \in {"loop", "raised"} => login.checks = login.failed
  /\ login.pc = "loop" => login.asked = login.failed /\ login.retry = login.failed
  /\ login.pc = "reattempt" => login.asked + 1 = login.failed

\* how a call of attempt_login ends: with the opener of the one check that
\* succeeded, nothing asked after it; with RuntimeError only after retries
\* failed checks
C29_Ends ==
  /\ login.pc = "returned" =>
       /\ login.out = Array(login.opener)
       /\ login.opener = <<[username |-> login.username, password |-> login.password]>>
       /\ login.checks = login.failed + 1
       /\ login.asked = login.failed
  /\ login.out = Raised("RuntimeError") =>
       login.failed = login.retries /\ login.checks = login.retries

\* the steps of attempt_login: a failed check is followed by the prompts, the
\* retries-th failure and its prompts by RuntimeError, anything less by a check
C29_Steps ==
  /\ login.pc = "reattempt" =>
       \/ login'.pc = "loop" /\ login'.asked = login.asked + 1
       \/ login'.out = Raised("EOFError")
  /\ login.pc = "loop" /\ login.failed = login.retries =>
       login'.out = Raised("RuntimeError") /\ login'.checks = login.checks
  /\ login.pc = "loop" /\ login.failed < login.retries =>
       login'.checks = login.checks + 1 /\ login'.pc \in {"returned", "reattempt"}

\* C29: attempt_login performs at most retries (default 5) credential checks:
\* it returns the opener immediately after the first check that succeeds, asks
\* for new credentials after each failed check, and raises RuntimeError once
\* retries consecutive checks have failed; with retries = 0 it raises without
\* any check.
C29_Login == [](C29_Counts /\ C29_Ends) /\ [][C29_Steps]_vars

\* a call with the default retries ends in RuntimeError after five failed checks
C29_Witness ==
  /\ login.out = Raised("RuntimeError")
  /\ login.retries = DefaultRetries /\ login.failed = DefaultRetries
  /\ login.asked = DefaultRetries


RECURSIVE PagesUrls(_)
\* the matching URLs of the pages fetched, page after page
PagesUrls(pages) ==
  IF pages = <<>> THEN <<>> ELSE Head(pages).urls \o PagesUrls(Tail(pages))

\* C30: cmr returns the granule URLs of every result page it fetched, in page
\* order: no URL of a fetched page is missing from the returned list.
C30_AllPagesReturned ==
  query.pc = "returned" => query.out = Array(PagesUrls(query.pages))

====
